---- MODULE Spec2Model ----
(***************************************************************************)
(* Model of the Hugo process manager (internal/hugo/manager.go): the       *)
(* Start/Stop/Restart calls of concurrent callers, the background loops    *)
(* each successful Start launches (stdout reader, stderr reader,           *)
(* exit-waiter, grace timer), the supervised processes, the status pair    *)
(* and the log buffer (specification Spec); and the log buffer with its    *)
(* subscribers: addLog, GetLogs, Subscribe, Unsubscribe and the consumers  *)
(* of the subscriber channels (specifications SpecLog and SpecRead).       *)
(*                                                                         *)
(* Granularity: one action per critical section or per call that touches   *)
(* shared state.  m.cmd is an unsynchronised field: it is read again at    *)
(* every use (spawn, Kill, Wait), so each of those actions works on the    *)
(* value m.cmd has at that moment.                                         *)
(***************************************************************************)
EXTENDS Integers, Sequences, FiniteSets, TLC

\* ---------------------------------------------------------------- bounds
\* Number of Start/Stop/Restart calls made in one behaviour.
MaxCalls == 2
\* Number of lines the supervised processes write in one behaviour.
MaxLines == 1
\* Capacity of the log buffer: m.maxLogs, 1000 in NewManager, scaled down.
maxLogs == 2
\* Number of addLog calls made by the appenders of SpecLog in one behaviour.
MaxAppends == 3
\* Capacity of a subscriber channel: 100 in Subscribe, scaled down.
SubCap == 2
\* Number of Subscribe calls, each making one channel, in one behaviour.
MaxSubs == 2
\* Number of lines the process of SpecRun writes in one behaviour.
RunLines == 3

\* The threads calling the manager (HTTP handlers, main, the signal handler).
Callers == {"h1", "h2"}
\* Callers are interchangeable: "h2" is used only while "h1" is busy.
FirstCaller == "h1"
\* One exec.Cmd is created per accepted Start; 0 stands for m.cmd == nil.
Cmds == 1..MaxCalls
\* The goroutines calling addLog concurrently in SpecLog, each with the
\* origin it logs under (the two streamLogs loops).
Appenders == {"stdout", "stderr"}
\* The channels made by Subscribe.
Chans == 1..MaxSubs
\* The limits GetLogs is called with.
Limits == (0 - 1)..(maxLogs + 1)

\* ------------------------------------------------------- program constants
StatusStopped == "stopped"
StatusStarting == "starting"
StatusRunning == "running"
StatusError == "error"
Statuses == {StatusStopped, StatusStarting, StatusRunning, StatusError}

Port == 1313

Streams == {"stdout", "stderr"}

\* Lines are sequences of words; a message is a sequence of such pieces.
ReadyLine == <<"Web", "Server", "is", "available">>
PlainLine == <<"Building", "sites">>
OutLines == {ReadyLine, PlainLine}
Marker1 == <<"Web", "Server", "is", "available">>
Marker2 == <<"Serving", "pages", "from">>

\* Errors returned by the os/exec calls.
ErrNone == "nil"
ErrAlreadyRunning == "Hugo is already running"
ErrNotRunning == "Hugo is not running"
ErrNotFound == "exec: hugo: executable file not found in $PATH"
ErrPipe == "exec: pipe failed"
ErrPipeStarted == "exec: StdoutPipe after process started"
ErrStdoutSet == "exec: Stdout already set"
ErrProcessDone == "os: process already finished"
ErrNotStarted == "exec: not started"
ErrWaitCalled == "exec: Wait was already called"
ErrExitStatus == "exit status 1"
ErrKilled == "signal: killed"

VARIABLES
    status,     \* m.status
    statusMsg,  \* m.statusMsg
    cmd,        \* m.cmd: the id of the latest exec.Cmd, 0 for nil
    proc,       \* per exec.Cmd: state of the command and of its OS process
    reaped,     \* the exec.Cmds whose Wait has completed (Process is done)
    pipe,       \* per exec.Cmd and stream: lines written and not yet read
    reader,     \* per spawned Cmd and stream: position of streamLogs
    waiter,     \* per spawned Cmd: position of the exit-waiter goroutine
    timer,      \* per spawned Cmd: position of the grace-timer goroutine
    logs,       \* m.logs
    pc,         \* per caller: position inside Start/Stop/Restart
    op,         \* per caller: the call in progress
    ret,        \* the latest return of a call: who, which call, the error
    calls,      \* calls made so far
    emitted,    \* lines written so far
    subscribers, \* m.subscribers: the registered channels, in order
    chans,      \* per channel: made/open/closed and the entries pending in it
    recv,       \* per channel: the entry its consumer received last
    fan,        \* per appender: position inside addLog, entry, loop index
    appended,   \* addLog calls that have appended so far
    logMu,      \* m.logMu: number of read locks held
    got,        \* the GetLogs call of the reader: position, locals, result
    th,         \* per thread of SpecLock: its call and the next lock operation
    ws,         \* per log connection: position of handleHugoWS, connection state
    main,       \* the signal handler of main: position, processes alive at the signal
    config,     \* m.config: Port, DisableFastRender, AdditionalArgs
    args        \* per exec.Cmd: the argument list it was built with

lifeVars == <<status, statusMsg, cmd, proc, reaped, pipe, reader, waiter, timer>>
callVars == <<pc, op, ret, calls>>
runVars == <<lifeVars, callVars, emitted>>
fanVars == <<subscribers, chans, recv, fan, appended, logMu, got>>
miscVars == <<main, config, args>>
vars == <<status, statusMsg, cmd, proc, reaped, pipe, reader, waiter, timer,
          logs, pc, op, ret, calls, emitted,
          subscribers, chans, recv, fan, appended, logMu, got, th, ws,
          main, config, args>>

\* ---------------------------------------------------------- pure helpers
\* containsAt: substr occurs in s at some index i in 0..len(s)-len(substr).
containsAt(s, substr) ==
    \E i \in 0..(Len(s) - Len(substr)) :
        SubSeq(s, i + 1, i + Len(substr)) = substr

\* contains(s, substr)
contains(s, substr) ==
    Len(s) >= Len(substr) /\ (s = substr \/ (Len(s) > 0 /\ containsAt(s, substr)))

\* A ready-marker test that does not look at the stream.
IsReady_AnyStream(logType, line) ==
    contains(line, Marker1) \/ contains(line, Marker2)

\* The ready-marker test of streamLogs.
IsReady(logType, line) ==
    logType = "stdout" /\ (contains(line, Marker1) \/ contains(line, Marker2))

\* A LogEntry (the timestamp is never compared and is left out).
LogEntry(message, logType) == [Message |-> message, Type |-> logType]

\* addLog that evicts the newest entries instead of the oldest.
AddLog_EvictsNewest(l, message, logType) ==
    LET a == Append(l, LogEntry(message, logType))
    IN  IF Len(a) > maxLogs THEN SubSeq(a, 1, maxLogs) ELSE a

\* The buffer part of addLog: append, then keep the last maxLogs entries.
AddLog(l, message, logType) ==
    LET a == Append(l, LogEntry(message, logType))
    IN  IF Len(a) > maxLogs THEN SubSeq(a, Len(a) - maxLogs + 1, Len(a)) ELSE a

MsgStarting == <<"Starting Hugo server...">>
MsgStopping == <<"Stopping Hugo server...">>
MsgRestarting == <<"Restarting Hugo server...">>
MsgStoppedLog == <<"Hugo server stopped">>
MsgEmpty == <<>>
MsgRunning == <<"Running on port", ToString(Port)>>
MsgErrStopping(err) == <<"Error stopping Hugo:", err>>
MsgExited(err) == <<"Hugo exited with error:", err>>
MsgFailedStdout(err) == <<"Failed to get stdout:", err>>
MsgFailedStderr(err) == <<"Failed to get stderr:", err>>
MsgFailedStart(err) == <<"Failed to start Hugo:", err>>

\* Commands whose cmd.Start() succeeded: m.cmd.Process is not nil.
HasProcess(c) == proc[c] \in {"alive", "exited0", "exitedErr", "killed"}
Alive == {c \in Cmds : proc[c] = "alive"}

NoReturn == [who |-> "none", op |-> "none", err |-> "none"]

\* The zero value of LogEntry: what make([]LogEntry, n) is filled with.
ZeroEntry == LogEntry(<<>>, "")
\* The message of the k-th addLog call of SpecLog (messages are told apart
\* by the order in which they were appended).
Label(k) == <<"line", ToString(k)>>

NoCall == [pc |-> "idle", limit |-> 0, n |-> 0, start |-> 0, result |-> <<>>]
Idle == [pc |-> "idle", entry |-> ZeroEntry, i |-> 1]

\* The threads of SpecLock.
LockThreads == {"t1", "t2", "t3"}
NoOp == [op |-> "none", at |-> 1, pend |-> FALSE]
\* A log connection before its handler has subscribed.
\* main before any signal has arrived.
Serving == [pc |-> "serving", alive |-> {}]

\* The default Hugo configuration.
DefaultConfig ==
    [Port |-> Port, DisableFastRender |-> TRUE, AdditionalArgs |-> <<"--bind", "0.0.0.0">>]

NoConn == [pc |-> "new", conn |-> "open", ch |-> 0, todo |-> <<>>, sent |-> <<>>]

\* ------------------------------------------------------------------ Init
\* The state NewManager leaves, for the configuration cfg.
InitConfig(cfg) ==
    /\ status = StatusStopped
    /\ statusMsg = MsgEmpty
    /\ cmd = 0
    /\ proc = [c \in Cmds |-> "none"]
    /\ reaped = {}
    /\ pipe = [c \in Cmds |-> [s \in Streams |-> <<>>]]
    /\ reader = [c \in Cmds |-> [s \in Streams |-> "off"]]
    /\ waiter = [c \in Cmds |-> [pc |-> "off", target |-> 0, err |-> ErrNone]]
    /\ timer = [c \in Cmds |-> "off"]
    /\ logs = <<>>
    /\ pc = [t \in Callers |-> "idle"]
    /\ op = [t \in Callers |-> "none"]
    /\ ret = NoReturn
    /\ calls = 0
    /\ emitted = 0
    /\ subscribers = <<>>
    /\ chans = [ch \in Chans |-> [state |-> "unmade", buf |-> <<>>]]
    /\ recv = [ch \in Chans |-> ZeroEntry]
    /\ fan = [a \in Appenders |-> Idle]
    /\ appended = 0
    /\ logMu = 0
    /\ got = NoCall
    /\ th = [t \in LockThreads |-> NoOp]
    /\ ws = [ch \in Chans |-> NoConn]
    /\ main = Serving
    /\ config = cfg
    /\ args = [c \in Cmds |-> <<>>]

Init == InitConfig(DefaultConfig)

\* A caller begins a new call, or continues inside Restart at position at.
CanCall(t) ==
    /\ pc[t] = "idle"
    /\ calls < MaxCalls
    /\ t = FirstCaller \/ pc[FirstCaller] /= "idle"

Enters(t, at) ==
    \/ /\ CanCall(t)
       /\ calls' = calls + 1
    \/ /\ pc[t] = at
       /\ op[t] = "Restart"
       /\ UNCHANGED calls

\* The call in progress once t has entered the function called name.
CallOf(t, name) == IF pc[t] = "idle" THEN name ELSE op[t]

\* Caller t goes on to position at.
Goes(t, name, at) ==
    /\ pc' = [pc EXCEPT ![t] = at]
    /\ op' = [op EXCEPT ![t] = name]
    /\ UNCHANGED ret

\* The call of caller t returns e.
Returns(t, name, e) ==
    /\ pc' = [pc EXCEPT ![t] = "idle"]
    /\ op' = [op EXCEPT ![t] = "none"]
    /\ ret' = [who |-> t, op |-> name, err |-> e]

\* ----------------------------------------------------------------- Start
\* Start whose precondition rejects only the status running.
StartCheck_OnlyRunning(t) ==
    /\ Enters(t, "r_start")
    /\ IF status = StatusRunning
       THEN /\ Returns(t, CallOf(t, "Start"), ErrAlreadyRunning)
            /\ UNCHANGED <<status, statusMsg>>
       ELSE /\ status' = StatusStarting
            /\ statusMsg' = MsgStarting
            /\ Goes(t, CallOf(t, "Start"), "s_log")
    /\ UNCHANGED <<cmd, proc, reaped, pipe, reader, waiter, timer, logs, emitted>>
    /\ UNCHANGED <<fanVars, th, ws, miscVars>>

\* Start that passes its precondition without writing the status.
StartCheck_NoStarting(t) ==
    /\ Enters(t, "r_start")
    /\ IF status = StatusRunning \/ status = StatusStarting
       THEN Returns(t, CallOf(t, "Start"), ErrAlreadyRunning)
       ELSE Goes(t, CallOf(t, "Start"), "s_log")
    /\ UNCHANGED <<status, statusMsg>>
    /\ UNCHANGED <<cmd, proc, reaped, pipe, reader, waiter, timer, logs, emitted>>
    /\ UNCHANGED <<fanVars, th, ws, miscVars>>

\* Lines 59-66: the precondition and the move to starting, under statusMu.
StartCheck(t) ==
    /\ Enters(t, "r_start")
    /\ IF status = StatusRunning \/ status = StatusStarting
       THEN /\ Returns(t, CallOf(t, "Start"), ErrAlreadyRunning)
            /\ UNCHANGED <<status, statusMsg>>
       ELSE /\ status' = StatusStarting
            /\ statusMsg' = MsgStarting
            /\ Goes(t, CallOf(t, "Start"), "s_log")
    /\ UNCHANGED <<cmd, proc, reaped, pipe, reader, waiter, timer, logs, emitted>>
    /\ UNCHANGED <<fanVars, th, ws, miscVars>>

\* Start that appends no log entry.
StartLog_Skip(t) ==
    /\ pc[t] = "s_log"
    /\ pc' = [pc EXCEPT ![t] = "s_cmd"]
    /\ UNCHANGED <<lifeVars, logs, op, ret, calls, emitted>>
    /\ UNCHANGED <<fanVars, th, ws, miscVars>>

\* Start that begins a new buffer for the new run.
StartLog_Resets(t) ==
    /\ pc[t] = "s_log"
    /\ logs' = AddLog(<<>>, MsgStarting, "system")
    /\ pc' = [pc EXCEPT ![t] = "s_cmd"]
    /\ UNCHANGED <<lifeVars, op, ret, calls, emitted>>
    /\ UNCHANGED <<fanVars, th, ws, miscVars>>

\* Line 68.
StartLog(t) ==
    /\ pc[t] = "s_log"
    /\ logs' = AddLog(logs, MsgStarting, "system")
    /\ pc' = [pc EXCEPT ![t] = "s_cmd"]
    /\ UNCHANGED <<lifeVars, op, ret, calls, emitted>>
    /\ UNCHANGED <<fanVars, th, ws, miscVars>>

\* An argument list with the flag after the additional arguments.
BuildArgs_FlagLast(cfg) ==
    <<"server", "--port", ToString(cfg.Port)>>
        \o cfg.AdditionalArgs
        \o (IF cfg.DisableFastRender THEN <<"--disableFastRender">> ELSE <<>>)

\* Lines 71-78: the argument list of the hugo command.
BuildArgs(cfg) ==
    <<"server", "--port", ToString(cfg.Port)>>
        \o (IF cfg.DisableFastRender THEN <<"--disableFastRender">> ELSE <<>>)
        \o cfg.AdditionalArgs

\* Lines 70-81: m.cmd = exec.Command("hugo", args...).
StartCmd(t) ==
    /\ pc[t] = "s_cmd"
    /\ cmd' = cmd + 1
    /\ proc' = [proc EXCEPT ![cmd + 1] = "new"]
    /\ args' = [args EXCEPT ![cmd + 1] = BuildArgs(config)]
    /\ pc' = [pc EXCEPT ![t] = "s_spawn"]
    /\ UNCHANGED <<status, statusMsg, reaped, pipe, reader, waiter, timer,
                   logs, op, ret, calls, emitted>>
    /\ UNCHANGED <<fanVars, th, ws, main, config>>

\* A spawn failure that leaves the status at stopped.
SpawnFails_Stopped(t, msg, err) ==
    /\ status' = StatusStopped
    /\ statusMsg' = MsgEmpty
    /\ proc' = [proc EXCEPT ![cmd] = IF @ = "new" THEN "failed" ELSE @]
    /\ Returns(t, op[t], err)
    /\ UNCHANGED <<reader, waiter, timer>>

\* Lines 84-100, a failure: setStatus(StatusError, ...) and return err.
SpawnFails(t, msg, err) ==
    /\ status' = StatusError
    /\ statusMsg' = msg
    /\ proc' = [proc EXCEPT ![cmd] = IF @ = "new" THEN "failed" ELSE @]
    /\ Returns(t, op[t], err)
    /\ UNCHANGED <<reader, waiter, timer>>

\* Lines 97-129, success: the process runs and the four goroutines exist.
SpawnSucceeds(t) ==
    /\ proc' = [proc EXCEPT ![cmd] = "alive"]
    /\ reader' = [reader EXCEPT ![cmd] = [s \in Streams |-> "scan"]]
    /\ waiter' = [waiter EXCEPT ![cmd].pc = "start"]
    /\ timer' = [timer EXCEPT ![cmd] = "sleep"]
    /\ Returns(t, op[t], ErrNone)
    /\ UNCHANGED <<status, statusMsg>>

\* Lines 84-129: StdoutPipe, StderrPipe and Start on the current m.cmd.
StartSpawn(t) ==
    /\ pc[t] = "s_spawn"
    /\ \/ /\ proc[cmd] = "new"
          /\ \/ SpawnSucceeds(t)
             \/ SpawnFails(t, MsgFailedStdout(ErrPipe), ErrPipe)
             \/ SpawnFails(t, MsgFailedStderr(ErrPipe), ErrPipe)
             \/ SpawnFails(t, MsgFailedStart(ErrNotFound), ErrNotFound)
       \/ /\ HasProcess(cmd)
          /\ SpawnFails(t, MsgFailedStdout(ErrPipeStarted), ErrPipeStarted)
       \/ /\ proc[cmd] = "failed"
          /\ SpawnFails(t, MsgFailedStdout(ErrStdoutSet), ErrStdoutSet)
    /\ UNCHANGED <<cmd, reaped, pipe, logs, calls, emitted>>
    /\ UNCHANGED <<fanVars, th, ws, miscVars>>

\* ------------------------------------------------------------------ Stop
\* Stop that logs before it tests its precondition.
StopCheck_LogsFirst(t) ==
    /\ Enters(t, "r_stop")
    /\ logs' = AddLog(logs, MsgStopping, "system")
    /\ IF status = StatusStopped
       THEN Returns(t, CallOf(t, "Stop"), ErrNotRunning)
       ELSE Goes(t, CallOf(t, "Stop"), "k_kill")
    /\ UNCHANGED <<lifeVars, emitted>>
    /\ UNCHANGED <<fanVars, th, ws, miscVars>>

\* Lines 134-139: the precondition, under statusMu.
StopCheck(t) ==
    /\ Enters(t, "r_stop")
    /\ IF status = StatusStopped
       THEN Returns(t, CallOf(t, "Stop"), ErrNotRunning)
       ELSE Goes(t, CallOf(t, "Stop"), "k_log")
    /\ UNCHANGED <<lifeVars, logs, emitted>>
    /\ UNCHANGED <<fanVars, th, ws, miscVars>>

\* Line 141.
StopLog(t) ==
    /\ pc[t] = "k_log"
    /\ logs' = AddLog(logs, MsgStopping, "system")
    /\ pc' = [pc EXCEPT ![t] = "k_kill"]
    /\ UNCHANGED <<lifeVars, op, ret, calls, emitted>>
    /\ UNCHANGED <<fanVars, th, ws, miscVars>>

\* Process.Kill: fails once the process has been waited for, else SIGKILL.
KillFails(c) == c \in reaped

\* Lines 143-148: the kill of the process of the current m.cmd, if it has one.
StopKill(t) ==
    /\ pc[t] = "k_kill"
    /\ IF cmd /= 0 /\ HasProcess(cmd)
       THEN IF KillFails(cmd)
            THEN /\ pc' = [pc EXCEPT ![t] = "k_err"]
                 /\ UNCHANGED proc
            ELSE /\ proc' = [proc EXCEPT ![cmd] = IF @ = "alive" THEN "killed" ELSE @]
                 /\ pc' = [pc EXCEPT ![t] = "k_set"]
       ELSE /\ pc' = [pc EXCEPT ![t] = "k_set"]
            /\ UNCHANGED proc
    /\ UNCHANGED <<status, statusMsg, cmd, reaped, pipe, reader, waiter, timer,
                   logs, op, ret, calls, emitted>>
    /\ UNCHANGED <<fanVars, th, ws, miscVars>>

\* A failed kill that still forces the status to stopped.
StopKillError_ForcesStopped(t) ==
    /\ pc[t] = "k_err"
    /\ logs' = AddLog(logs, MsgErrStopping(ErrProcessDone), "system")
    /\ Returns(t, op[t], ErrProcessDone)
    /\ status' = StatusStopped
    /\ statusMsg' = MsgEmpty
    /\ UNCHANGED <<cmd, proc, reaped, pipe, reader, waiter, timer, calls, emitted>>
    /\ UNCHANGED <<fanVars, th, ws, miscVars>>

\* A failed kill that Restart swallows: it goes on to its Start.
StopKillError_Swallowed(t) ==
    /\ pc[t] = "k_err"
    /\ logs' = AddLog(logs, MsgErrStopping(ErrProcessDone), "system")
    /\ IF op[t] = "Restart"
       THEN Goes(t, "Restart", "r_start")
       ELSE Returns(t, op[t], ErrProcessDone)
    /\ UNCHANGED <<lifeVars, calls, emitted>>
    /\ UNCHANGED <<fanVars, th, ws, miscVars>>

\* Lines 145-146: the kill failed; log it and return the error.
StopKillError(t) ==
    /\ pc[t] = "k_err"
    /\ logs' = AddLog(logs, MsgErrStopping(ErrProcessDone), "system")
    /\ Returns(t, op[t], ErrProcessDone)
    /\ UNCHANGED <<lifeVars, calls, emitted>>
    /\ UNCHANGED <<fanVars, th, ws, miscVars>>

\* Stop whose last step leaves the status as it is.
StopSet_KeepStatus(t) ==
    /\ pc[t] = "k_set"
    /\ IF op[t] = "Restart"
       THEN Goes(t, "Restart", "r_start")
       ELSE Returns(t, op[t], ErrNone)
    /\ UNCHANGED <<lifeVars, logs, calls, emitted>>
    /\ UNCHANGED <<fanVars, th, ws, miscVars>>

\* Lines 150-151; inside Restart, lines 162-166 follow (the sleep, then Start).
StopSet(t) ==
    /\ pc[t] = "k_set"
    /\ status' = StatusStopped
    /\ statusMsg' = MsgEmpty
    /\ IF op[t] = "Restart"
       THEN Goes(t, "Restart", "r_start")
       ELSE Returns(t, op[t], ErrNone)
    /\ UNCHANGED <<cmd, proc, reaped, pipe, reader, waiter, timer,
                   logs, calls, emitted>>
    /\ UNCHANGED <<fanVars, th, ws, miscVars>>

\* --------------------------------------------------------------- Restart
\* Line 156.
RestartLog(t) ==
    /\ CanCall(t)
    /\ calls' = calls + 1
    /\ Goes(t, "Restart", "r_check")
    /\ logs' = AddLog(logs, MsgRestarting, "system")
    /\ UNCHANGED <<lifeVars, emitted>>
    /\ UNCHANGED <<fanVars, th, ws, miscVars>>

\* Line 158: m.status read without the lock.
RestartCheck(t) ==
    /\ pc[t] = "r_check"
    /\ pc' = [pc EXCEPT ![t] = IF status /= StatusStopped THEN "r_stop" ELSE "r_start"]
    /\ UNCHANGED <<lifeVars, logs, op, ret, calls, emitted>>
    /\ UNCHANGED <<fanVars, th, ws, miscVars>>

\* ----------------------------------------------------- the exit-waiter
\* What cmd.Wait() returns for a process that has ended.
WaitResult(c) ==
    IF c \in reaped THEN ErrWaitCalled
    ELSE IF proc[c] = "exited0" THEN ErrNone
    ELSE IF proc[c] = "killed" THEN ErrKilled
    ELSE ErrExitStatus

\* Line 108, the call: m.cmd is read now; a Cmd without process fails at once.
WaitCall(c) ==
    /\ waiter[c].pc = "start"
    /\ waiter' = [waiter EXCEPT ![c] =
                    IF HasProcess(cmd)
                    THEN [pc |-> "wait", target |-> cmd, err |-> ErrNone]
                    ELSE [pc |-> "log", target |-> cmd, err |-> ErrNotStarted]]
    /\ UNCHANGED <<status, statusMsg, cmd, proc, reaped, pipe, reader, timer,
                   logs, callVars, emitted>>
    /\ UNCHANGED <<fanVars, th, ws, miscVars>>

\* Line 108, the return: the process has ended; Wait reaps it and closes its pipes.
WaitReturn(c) ==
    /\ waiter[c].pc = "wait"
    /\ proc[waiter[c].target] /= "alive"
    /\ waiter' = [waiter EXCEPT ![c].pc = "log", ![c].err = WaitResult(waiter[c].target)]
    /\ reaped' = reaped \cup {waiter[c].target}
    /\ UNCHANGED <<status, statusMsg, cmd, proc, pipe, reader, timer,
                   logs, callVars, emitted>>
    /\ UNCHANGED <<fanVars, th, ws, miscVars>>

\* Lines 110 and 113.
WaitLog(c) ==
    /\ waiter[c].pc = "log"
    /\ logs' = IF waiter[c].err /= ErrNone
               THEN AddLog(logs, MsgExited(waiter[c].err), "system")
               ELSE AddLog(logs, MsgStoppedLog, "system")
    /\ waiter' = [waiter EXCEPT ![c].pc = "set"]
    /\ UNCHANGED <<status, statusMsg, cmd, proc, reaped, pipe, reader, timer,
                   callVars, emitted>>
    /\ UNCHANGED <<fanVars, th, ws, miscVars>>

\* Lines 111 and 114.
WaitSet(c) ==
    /\ waiter[c].pc = "set"
    /\ IF waiter[c].err /= ErrNone
       THEN /\ status' = StatusError
            /\ statusMsg' = <<waiter[c].err>>
       ELSE /\ status' = StatusStopped
            /\ statusMsg' = MsgEmpty
    /\ waiter' = [waiter EXCEPT ![c].pc = "done"]
    /\ UNCHANGED <<cmd, proc, reaped, pipe, reader, timer, logs, callVars, emitted>>
    /\ UNCHANGED <<fanVars, th, ws, miscVars>>

\* ------------------------------------------------------- the grace timer
\* A grace timer that sets running whatever the status is.
TimerFire_Always(c) ==
    /\ timer[c] = "sleep"
    /\ timer' = [timer EXCEPT ![c] = "done"]
    /\ status' = StatusRunning
    /\ statusMsg' = MsgRunning
    /\ UNCHANGED <<cmd, proc, reaped, pipe, reader, waiter, logs, callVars, emitted>>
    /\ UNCHANGED <<fanVars, th, ws, miscVars>>

\* A grace timer that writes the status and leaves the message.
TimerFire_StatusOnly(c) ==
    /\ timer[c] = "sleep"
    /\ timer' = [timer EXCEPT ![c] = "done"]
    /\ IF status = StatusStarting
       THEN /\ status' = StatusRunning
            /\ UNCHANGED statusMsg
       ELSE UNCHANGED <<status, statusMsg>>
    /\ UNCHANGED <<cmd, proc, reaped, pipe, reader, waiter, logs, callVars, emitted>>
    /\ UNCHANGED <<fanVars, th, ws, miscVars>>

\* Lines 119-127: after the sleep, promote starting to running.
TimerFire(c) ==
    /\ timer[c] = "sleep"
    /\ timer' = [timer EXCEPT ![c] = "done"]
    /\ IF status = StatusStarting
       THEN /\ status' = StatusRunning
            /\ statusMsg' = MsgRunning
       ELSE UNCHANGED <<status, statusMsg>>
    /\ UNCHANGED <<cmd, proc, reaped, pipe, reader, waiter, logs, callVars, emitted>>
    /\ UNCHANGED <<fanVars, th, ws, miscVars>>

\* ------------------------------------------------------------ streamLogs
\* streamLogs that hands over the newest line of the pipe first.
ReadLine_TakesLast(c, s) ==
    /\ reader[c][s] = "scan"
    /\ pipe[c][s] /= <<>>
    /\ LET n == Len(pipe[c][s])
       IN  /\ logs' = AddLog(logs, pipe[c][s][n], s)
           /\ pipe' = [pipe EXCEPT ![c][s] = SubSeq(@, 1, n - 1)]
           /\ reader' = [reader EXCEPT ![c][s] =
                           IF IsReady(s, pipe[c][s][n]) THEN "mark" ELSE "scan"]
    /\ UNCHANGED <<status, statusMsg, cmd, proc, reaped, waiter, timer,
                   callVars, emitted>>
    /\ UNCHANGED <<fanVars, th, ws, miscVars>>

\* Lines 258-260: Scan yields a line and addLog stores it.
ReadLine(c, s) ==
    /\ reader[c][s] = "scan"
    /\ pipe[c][s] /= <<>>
    /\ logs' = AddLog(logs, Head(pipe[c][s]), s)
    /\ pipe' = [pipe EXCEPT ![c][s] = Tail(@)]
    /\ reader' = [reader EXCEPT ![c][s] =
                    IF IsReady(s, Head(pipe[c][s])) THEN "mark" ELSE "scan"]
    /\ UNCHANGED <<status, statusMsg, cmd, proc, reaped, waiter, timer,
                   callVars, emitted>>
    /\ UNCHANGED <<fanVars, th, ws, miscVars>>

\* Lines 263-265: the line held a ready marker.
ReadMark(c, s) ==
    /\ reader[c][s] = "mark"
    /\ status' = StatusRunning
    /\ statusMsg' = MsgRunning
    /\ reader' = [reader EXCEPT ![c][s] = "scan"]
    /\ UNCHANGED <<cmd, proc, reaped, pipe, waiter, timer, logs, callVars, emitted>>
    /\ UNCHANGED <<fanVars, th, ws, miscVars>>

\* Line 258: Scan returns false because Wait closed the pipe; the lines still
\* in the pipe are lost.  (At end of file the loop ends without any effect:
\* see ReaderEnded.)
ReadClosed(c, s) ==
    /\ reader[c][s] = "scan"
    /\ c \in reaped
    /\ pipe[c][s] /= <<>>
    /\ pipe' = [pipe EXCEPT ![c][s] = <<>>]
    /\ UNCHANGED reader
    /\ UNCHANGED <<status, statusMsg, cmd, proc, reaped, waiter, timer,
                   logs, callVars, emitted>>
    /\ UNCHANGED <<fanVars, th, ws, miscVars>>

\* streamLogs of stream s of c has returned: nothing is left to read.
ReaderEnded(c, s) ==
    reader[c][s] = "scan" /\ pipe[c][s] = <<>> /\ proc[c] \notin {"alive", "none", "new", "failed"}

\* ------------------------------------------------ the supervised process
\* The process writes a line to one of its output streams, as long as fewer
\* than bound lines have been written.
EmitLine(c, s, line, bound) ==
    /\ proc[c] = "alive"
    /\ emitted < bound
    /\ emitted' = emitted + 1
    /\ pipe' = [pipe EXCEPT ![c][s] = Append(@, line)]
    /\ UNCHANGED <<status, statusMsg, cmd, proc, reaped, reader, waiter, timer,
                   logs, callVars>>
    /\ UNCHANGED <<fanVars, th, ws, miscVars>>

ProcEmit(c, s, line) == EmitLine(c, s, line, MaxLines)

\* What may follow the number of a line: nothing, one of the two ready
\* markers, or the beginning of a marker only.
RunTails == {<<>>, Marker1, Marker2, <<"Serving", "pages">>}

\* In SpecRun the process numbers its lines; a line may carry a ready marker.
RunLine(k, tail) == Label(k) \o tail

RunEmit(c, s, tail) == EmitLine(c, s, RunLine(emitted + 1, tail), RunLines)

\* The process ends by itself, cleanly or not.
ProcExit(c, how) ==
    /\ proc[c] = "alive"
    /\ proc' = [proc EXCEPT ![c] = how]
    /\ UNCHANGED <<status, statusMsg, cmd, reaped, pipe, reader, waiter, timer,
                   logs, callVars, emitted>>
    /\ UNCHANGED <<fanVars, th, ws, miscVars>>

\* ------------------------------------------------------------------ Next
Next ==
    \/ \E t \in Callers : StartCheck(t)
    \/ \E t \in Callers : StartLog(t)
    \/ \E t \in Callers : StartCmd(t)
    \/ \E t \in Callers : StartSpawn(t)
    \/ \E t \in Callers : StopCheck(t)
    \/ \E t \in Callers : StopLog(t)
    \/ \E t \in Callers : StopKill(t)
    \/ \E t \in Callers : StopKillError(t)
    \/ \E t \in Callers : StopSet(t)
    \/ \E t \in Callers : RestartLog(t)
    \/ \E t \in Callers : RestartCheck(t)
    \/ \E c \in Cmds : WaitCall(c)
    \/ \E c \in Cmds : WaitReturn(c)
    \/ \E c \in Cmds : WaitLog(c)
    \/ \E c \in Cmds : WaitSet(c)
    \/ \E c \in Cmds : TimerFire(c)
    \/ \E c \in Cmds, s \in Streams : ReadLine(c, s)
    \/ \E c \in Cmds, s \in Streams : ReadMark(c, s)
    \/ \E c \in Cmds, s \in Streams : ReadClosed(c, s)
    \/ \E c \in Cmds, s \in Streams, line \in OutLines : ProcEmit(c, s, line)
    \/ \E c \in Cmds, how \in {"exited0", "exitedErr"} : ProcExit(c, how)

Spec == Init /\ [][Next]_vars

\* ------------------------------------------------------- the shutdown
\* SpecShutdown: Start and Stop calls on a process that writes nothing, with
\* the signal handler of main, which calls Stop and then exits the manager;
\* after the exit no goroutine of the manager takes a step.
\* main, line 92: a SIGINT or SIGTERM arrives.
Signal ==
    /\ main.pc = "serving"
    /\ main' = [pc |-> "check", alive |-> Alive]
    /\ UNCHANGED <<runVars, fanVars, logs, th, ws, config, args>>

\* main, line 94, in Stop lines 134-139: the precondition; the error Stop
\* returns is dropped.
SignalStopCheck ==
    /\ main.pc = "check"
    /\ main' = [main EXCEPT !.pc = IF status = StatusStopped THEN "exit" ELSE "log"]
    /\ UNCHANGED <<runVars, fanVars, logs, th, ws, config, args>>

\* main, line 94, in Stop line 141.
SignalStopLog ==
    /\ main.pc = "log"
    /\ logs' = AddLog(logs, MsgStopping, "system")
    /\ main' = [main EXCEPT !.pc = "kill"]
    /\ UNCHANGED <<runVars, fanVars, th, ws, config, args>>

\* main, line 94, in Stop lines 143-148: the kill of the process of the
\* current m.cmd, if it has one.
SignalStopKill ==
    /\ main.pc = "kill"
    /\ IF cmd /= 0 /\ HasProcess(cmd)
       THEN IF KillFails(cmd)
            THEN /\ main' = [main EXCEPT !.pc = "err"]
                 /\ UNCHANGED proc
            ELSE /\ proc' = [proc EXCEPT ![cmd] = IF @ = "alive" THEN "killed" ELSE @]
                 /\ main' = [main EXCEPT !.pc = "set"]
       ELSE /\ main' = [main EXCEPT !.pc = "set"]
            /\ UNCHANGED proc
    /\ UNCHANGED <<status, statusMsg, cmd, reaped, pipe, reader, waiter, timer,
                   logs, callVars, emitted>>
    /\ UNCHANGED <<fanVars, th, ws, config, args>>

\* main, line 94, in Stop lines 145-146: the kill failed.
SignalStopError ==
    /\ main.pc = "err"
    /\ logs' = AddLog(logs, MsgErrStopping(ErrProcessDone), "system")
    /\ main' = [main EXCEPT !.pc = "exit"]
    /\ UNCHANGED <<runVars, fanVars, th, ws, config, args>>

\* main, line 94, in Stop line 150.
SignalStopSet ==
    /\ main.pc = "set"
    /\ status' = StatusStopped
    /\ statusMsg' = MsgEmpty
    /\ main' = [main EXCEPT !.pc = "exit"]
    /\ UNCHANGED <<cmd, proc, reaped, pipe, reader, waiter, timer,
                   logs, callVars, emitted>>
    /\ UNCHANGED <<fanVars, th, ws, config, args>>

\* main, line 95: os.Exit(0).
SignalExit ==
    /\ main.pc = "exit"
    /\ main' = [main EXCEPT !.pc = "exited"]
    /\ UNCHANGED <<runVars, fanVars, logs, th, ws, config, args>>

\* The manager has not exited.
Up == main.pc /= "exited"

\* The steps of the manager stop at its exit; a process it spawned does not
\* end with it and may still exit by itself.
NextShutdown ==
    \/ \E t \in Callers : Up /\ StartCheck(t)
    \/ \E t \in Callers : Up /\ StartLog(t)
    \/ \E t \in Callers : Up /\ StartCmd(t)
    \/ \E t \in Callers : Up /\ StartSpawn(t)
    \/ \E t \in Callers : Up /\ StopCheck(t)
    \/ \E t \in Callers : Up /\ StopLog(t)
    \/ \E t \in Callers : Up /\ StopKill(t)
    \/ \E t \in Callers : Up /\ StopKillError(t)
    \/ \E t \in Callers : Up /\ StopSet(t)
    \/ \E c \in Cmds : Up /\ WaitCall(c)
    \/ \E c \in Cmds : Up /\ WaitReturn(c)
    \/ \E c \in Cmds : Up /\ WaitLog(c)
    \/ \E c \in Cmds : Up /\ WaitSet(c)
    \/ \E c \in Cmds : Up /\ TimerFire(c)
    \/ \E c \in Cmds, how \in {"exited0", "exitedErr"} : ProcExit(c, how)
    \/ Signal
    \/ SignalStopCheck
    \/ SignalStopLog
    \/ SignalStopKill
    \/ SignalStopError
    \/ SignalStopSet
    \/ SignalExit

SpecShutdown == Init /\ [][NextShutdown]_vars

\* ------------------------------------------------- the argument list
\* SpecArgs: Start under every configuration of a small family.
MaxArgs == 2
Ports == {Port, 8080}
ArgWords == {"--bind", "0.0.0.0", "-D"}
ArgLists == UNION {[1..n -> ArgWords] : n \in 0..MaxArgs}
Configs ==
    [Port : Ports, DisableFastRender : BOOLEAN, AdditionalArgs : ArgLists]

InitArgs == \E cfg \in Configs : InitConfig(cfg)

NextArgs ==
    \/ \E t \in Callers : StartCheck(t)
    \/ \E t \in Callers : StartLog(t)
    \/ \E t \in Callers : StartCmd(t)
    \/ \E t \in Callers : StartSpawn(t)

SpecArgs == InitArgs /\ [][NextArgs]_vars

\* ------------------------------------------- the log buffer and its viewers
\* In Spec nobody subscribes and nobody calls GetLogs: the fan-out loop of
\* addLog has no channel to visit and logMu is never read-locked.  SpecLog
\* has the appenders and the subscribers, SpecRead the appenders and a reader
\* calling GetLogs; neither has lifecycle calls.

\* Some addLog holds subMu.RLock: it is inside its loop over m.subscribers.
SubRLocked == \E a \in Appenders : fan[a].pc = "fan" /\ fan[a].i > 1

\* addLog that appends while GetLogs holds the read lock.
AppendEntry_NoLock(a) ==
    /\ fan[a].pc = "idle"
    /\ appended < MaxAppends
    /\ logs' = AddLog(logs, Label(appended + 1), a)
    /\ appended' = appended + 1
    /\ fan' = [fan EXCEPT ![a] = [pc |-> "fan",
                                  entry |-> LogEntry(Label(appended + 1), a),
                                  i |-> 1]]
    /\ UNCHANGED <<runVars, miscVars, th, ws, subscribers, chans, recv, logMu, got>>

\* addLog, lines 231-242: build the entry, append it under logMu.Lock.
AppendEntry(a) ==
    /\ fan[a].pc = "idle"
    /\ appended < MaxAppends
    /\ logMu = 0
    /\ logs' = AddLog(logs, Label(appended + 1), a)
    /\ appended' = appended + 1
    /\ fan' = [fan EXCEPT ![a] = [pc |-> "fan",
                                  entry |-> LogEntry(Label(appended + 1), a),
                                  i |-> 1]]
    /\ UNCHANGED <<runVars, miscVars, th, ws, subscribers, chans, recv, logMu, got>>

\* The select of lines 247-251: a send that never blocks.
TrySend(c, entry) ==
    IF Len(c.buf) < SubCap THEN [c EXCEPT !.buf = Append(@, entry)] ELSE c

\* A fan-out loop that stops at the first channel that is full.
FanSend_StopsAtFull(a) ==
    /\ fan[a].pc = "fan"
    /\ fan[a].i <= Len(subscribers)
    /\ LET ch == subscribers[fan[a].i]
       IN  /\ chans' = [chans EXCEPT ![ch] = TrySend(@, fan[a].entry)]
           /\ fan' = [fan EXCEPT ![a] =
                        IF fan[a].i = Len(subscribers) \/ Len(chans[ch].buf) >= SubCap
                        THEN Idle
                        ELSE [@ EXCEPT !.i = @ + 1]]
    /\ UNCHANGED <<runVars, miscVars, th, ws, logs, subscribers, recv, appended, logMu, got>>

\* A fan-out loop whose send waits for room in the channel.
FanSend_Blocks(a) ==
    /\ fan[a].pc = "fan"
    /\ fan[a].i <= Len(subscribers)
    /\ Len(chans[subscribers[fan[a].i]].buf) < SubCap
    /\ LET ch == subscribers[fan[a].i]
       IN  /\ chans' = [chans EXCEPT ![ch].buf = Append(@, fan[a].entry)]
           /\ fan' = [fan EXCEPT ![a] =
                        IF fan[a].i = Len(subscribers)
                        THEN Idle
                        ELSE [@ EXCEPT !.i = @ + 1]]
    /\ UNCHANGED <<runVars, miscVars, th, ws, logs, subscribers, recv, appended, logMu, got>>

\* addLog, lines 245-253: one iteration of the loop over m.subscribers, under
\* subMu.RLock (taken with the first iteration, released with the last).
FanSend(a) ==
    /\ fan[a].pc = "fan"
    /\ fan[a].i <= Len(subscribers)
    /\ LET ch == subscribers[fan[a].i]
       IN  /\ chans' = [chans EXCEPT ![ch] = TrySend(@, fan[a].entry)]
           /\ fan' = [fan EXCEPT ![a] =
                        IF fan[a].i = Len(subscribers)
                        THEN Idle
                        ELSE [@ EXCEPT !.i = @ + 1]]
    /\ UNCHANGED <<runVars, miscVars, th, ws, logs, subscribers, recv, appended, logMu, got>>

\* addLog, lines 245-253, when there is no subscriber.
FanNone(a) ==
    /\ fan[a].pc = "fan"
    /\ Len(subscribers) = 0
    /\ fan' = [fan EXCEPT ![a] = Idle]
    /\ UNCHANGED <<runVars, miscVars, th, ws, logs, subscribers, chans, recv, appended, logMu, got>>

\* Subscribe: make a channel and register it under subMu.Lock.
Subscribe(ch) ==
    /\ chans[ch].state = "unmade"
    /\ \A d \in Chans : d < ch => chans[d].state /= "unmade"
    /\ ~SubRLocked
    /\ chans' = [chans EXCEPT ![ch].state = "open"]
    /\ subscribers' = Append(subscribers, ch)
    /\ UNCHANGED <<runVars, miscVars, th, ws, logs, recv, fan, appended, logMu, got>>

\* The index of the first occurrence of ch in q, 0 if there is none.
IndexOf(q, ch) ==
    IF \E i \in 1..Len(q) : q[i] = ch
    THEN CHOOSE i \in 1..Len(q) : q[i] = ch /\ \A j \in 1..(i - 1) : q[j] /= ch
    ELSE 0

\* Unsubscribe that removes the channel without closing it.
Unsubscribe_NoClose(ch) ==
    /\ chans[ch].state /= "unmade"
    /\ ~SubRLocked
    /\ LET i == IndexOf(subscribers, ch)
       IN  IF i = 0
           THEN UNCHANGED subscribers
           ELSE subscribers' = SubSeq(subscribers, 1, i - 1)
                                 \o SubSeq(subscribers, i + 1, Len(subscribers))
    /\ UNCHANGED <<runVars, miscVars, th, ws, logs, chans, recv, fan, appended, logMu, got>>

\* Unsubscribe that closes the channel and leaves it in the registry.
Unsubscribe_KeepsRegistered(ch) ==
    /\ chans[ch].state /= "unmade"
    /\ ~SubRLocked
    /\ IndexOf(subscribers, ch) /= 0
    /\ chans' = [chans EXCEPT ![ch].state = "closed"]
    /\ UNCHANGED <<runVars, miscVars, th, ws, logs, subscribers, recv, fan, appended, logMu, got>>

\* Unsubscribe that closes its argument whether it is registered or not.
Unsubscribe_ClosesAnyway(ch) ==
    /\ ~SubRLocked
    /\ LET i == IndexOf(subscribers, ch)
       IN  IF i = 0
           THEN UNCHANGED subscribers
           ELSE subscribers' = SubSeq(subscribers, 1, i - 1)
                                 \o SubSeq(subscribers, i + 1, Len(subscribers))
    /\ chans' = [chans EXCEPT ![ch].state = "closed"]
    /\ UNCHANGED <<runVars, miscVars, th, ws, logs, recv, fan, appended, logMu, got>>

\* Unsubscribe: under subMu.Lock, remove the first occurrence of the channel
\* and close it; nothing is done for a channel that is not registered, be it
\* one that was unsubscribed before or one that Subscribe never returned.
Unsubscribe(ch) ==
    /\ ~SubRLocked
    /\ LET i == IndexOf(subscribers, ch)
       IN  IF i = 0
           THEN UNCHANGED <<subscribers, chans>>
           ELSE /\ subscribers' = SubSeq(subscribers, 1, i - 1)
                                     \o SubSeq(subscribers, i + 1, Len(subscribers))
                /\ chans' = [chans EXCEPT ![ch].state = "closed"]
    /\ UNCHANGED <<runVars, miscVars, th, ws, logs, recv, fan, appended, logMu, got>>

\* The consumer of a channel (for entry := range logChan) receives the oldest
\* pending entry; a closed channel still hands out what it holds.
Receive(ch) ==
    /\ chans[ch].state /= "unmade"
    /\ chans[ch].buf /= <<>>
    /\ recv' = [recv EXCEPT ![ch] = Head(chans[ch].buf)]
    /\ chans' = [chans EXCEPT ![ch].buf = Tail(@)]
    /\ UNCHANGED <<runVars, miscVars, th, ws, logs, subscribers, fan, appended, logMu, got>>

\* GetLogs that does not clamp a limit larger than the buffer.
GetLogsLimit_NoClamp(l, limit) ==
    IF limit <= 0 THEN Len(l) ELSE limit

\* GetLogs, lines 181-183.
GetLogsLimit(l, limit) ==
    IF limit <= 0 \/ limit > Len(l) THEN Len(l) ELSE limit

\* GetLogs, lines 185-188.
GetLogsStart(l, n) ==
    IF Len(l) - n < 0 THEN 0 ELSE Len(l) - n

\* GetLogs, lines 190-191: make a slice of n zero entries, then copy into it
\* as many entries of src as both hold.
MakeCopy(n, src) ==
    [i \in 1..n |-> IF i <= Len(src) THEN src[i] ELSE ZeroEntry]

\* GetLogs, lines 178-188: take the read lock, compute limit and start.
GetLogsBegin(limit) ==
    /\ got.pc \in {"idle", "done"}
    /\ logMu' = logMu + 1
    /\ got' = [pc |-> "locked",
               limit |-> limit,
               n |-> GetLogsLimit(logs, limit),
               start |-> GetLogsStart(logs, GetLogsLimit(logs, limit)),
               result |-> <<>>]
    /\ UNCHANGED <<runVars, miscVars, th, ws, logs, subscribers, chans, recv, fan, appended>>

\* GetLogs, lines 190-192: copy, release the read lock, return.
GetLogsCopy ==
    /\ got.pc = "locked"
    /\ got' = [got EXCEPT !.pc = "done",
                          !.result = MakeCopy(got.n,
                                       SubSeq(logs, got.start + 1, Len(logs)))]
    /\ logMu' = logMu - 1
    /\ UNCHANGED <<runVars, miscVars, th, ws, logs, subscribers, chans, recv, fan, appended>>

\* The appenders, the subscribers and the consumers of their channels.
NextLog ==
    \/ \E a \in Appenders : AppendEntry(a)
    \/ \E a \in Appenders : FanSend(a)
    \/ \E a \in Appenders : FanNone(a)
    \/ \E ch \in Chans : Subscribe(ch)
    \/ \E ch \in Chans : Unsubscribe(ch)
    \/ \E ch \in Chans : Receive(ch)

SpecLog == Init /\ [][NextLog]_vars

\* SpecLog with consumers that keep receiving while entries are pending.
FairSpecLog == SpecLog /\ \A ch \in Chans : WF_vars(Receive(ch))

\* The appenders and a reader calling GetLogs, with no subscriber.
NextRead ==
    \/ \E a \in Appenders : AppendEntry(a)
    \/ \E a \in Appenders : FanNone(a)
    \/ \E limit \in Limits : GetLogsBegin(limit)
    \/ GetLogsCopy

SpecRead == Init /\ [][NextRead]_vars

\* --------------------------------------------------- one run of a process
\* The state a first Start leaves when it returns nil with nothing else going
\* on: the process is alive and its four loops have just been launched.
InitRun ==
    /\ status = StatusStarting
    /\ statusMsg = MsgStarting
    /\ cmd = 1
    /\ proc = [c \in Cmds |-> IF c = 1 THEN "alive" ELSE "none"]
    /\ reaped = {}
    /\ pipe = [c \in Cmds |-> [s \in Streams |-> <<>>]]
    /\ reader = [c \in Cmds |-> [s \in Streams |-> IF c = 1 THEN "scan" ELSE "off"]]
    /\ waiter = [c \in Cmds |-> [pc |-> IF c = 1 THEN "start" ELSE "off",
                                  target |-> 0, err |-> ErrNone]]
    /\ timer = [c \in Cmds |-> IF c = 1 THEN "sleep" ELSE "off"]
    /\ logs = AddLog(<<>>, MsgStarting, "system")
    /\ pc = [t \in Callers |-> "idle"]
    /\ op = [t \in Callers |-> "none"]
    /\ ret = [who |-> FirstCaller, op |-> "Start", err |-> ErrNone]
    /\ calls = 1
    /\ emitted = 0
    /\ subscribers = <<>>
    /\ chans = [ch \in Chans |-> [state |-> "unmade", buf |-> <<>>]]
    /\ recv = [ch \in Chans |-> ZeroEntry]
    /\ fan = [a \in Appenders |-> Idle]
    /\ appended = 0
    /\ logMu = 0
    /\ got = NoCall
    /\ th = [t \in LockThreads |-> NoOp]
    /\ ws = [ch \in Chans |-> NoConn]
    /\ main = Serving
    /\ config = DefaultConfig
    /\ args = [c \in Cmds |-> <<>>]

\* The process, its readers, its exit-waiter and its grace timer; no call.
NextRun ==
    \/ \E c \in Cmds, s \in Streams, tail \in RunTails : RunEmit(c, s, tail)
    \/ \E c \in Cmds, how \in {"exited0", "exitedErr"} : ProcExit(c, how)
    \/ \E c \in Cmds, s \in Streams : ReadLine(c, s)
    \/ \E c \in Cmds, s \in Streams : ReadMark(c, s)
    \/ \E c \in Cmds, s \in Streams : ReadClosed(c, s)
    \/ \E c \in Cmds : WaitCall(c)
    \/ \E c \in Cmds : WaitReturn(c)
    \/ \E c \in Cmds : WaitLog(c)
    \/ \E c \in Cmds : WaitSet(c)
    \/ \E c \in Cmds : TimerFire(c)

SpecRun == InitRun /\ [][NextRun]_vars

\* ------------------------------------------------------------- the locks
\* SpecLock follows only the lock operations of the manager: every function
\* is the sequence of Lock/Unlock/RLock/RUnlock calls it makes, in the order
\* of its code, and any three of them run concurrently.
Mu == {"statusMu", "logMu", "subMu"}
LockOp(do, mu) == [do |-> do, mu |-> mu]

\* addLog that starts its fan-out before it releases logMu.
addLogLocks_Nested ==
    <<LockOp("Lock", "logMu"), LockOp("RLock", "subMu"),
      LockOp("RUnlock", "subMu"), LockOp("Unlock", "logMu")>>

\* addLog, lines 237-253.
addLogLocks ==
    <<LockOp("Lock", "logMu"), LockOp("Unlock", "logMu"),
      LockOp("RLock", "subMu"), LockOp("RUnlock", "subMu")>>

\* setStatus, lines 224-227; the precondition of Start, lines 59-66, and of
\* Stop, lines 134-139; the grace timer, lines 121-126.
setStatusLocks == <<LockOp("Lock", "statusMu"), LockOp("Unlock", "statusMu")>>

\* GetStatus that reads the pair under the log lock.
GetStatusLocks_ViaLogMu == <<LockOp("RLock", "logMu"), LockOp("RUnlock", "logMu")>>

\* GetStatus, lines 171-173.
GetStatusLocks == <<LockOp("RLock", "statusMu"), LockOp("RUnlock", "statusMu")>>

\* GetLogs, lines 178-192.
GetLogsLocks == <<LockOp("RLock", "logMu"), LockOp("RUnlock", "logMu")>>

\* Subscribe, lines 198-200; Unsubscribe, lines 206-215.
SubscribeLocks == <<LockOp("Lock", "subMu"), LockOp("Unlock", "subMu")>>

\* Stop that passes its precondition and kills: lines 134-150.
StopLocks == setStatusLocks \o addLogLocks \o setStatusLocks

\* Start that passes its precondition and spawns: lines 59-104.
StartLocks == setStatusLocks \o addLogLocks

LockCalls ==
    {"Start", "StartRejected", "StartFails", "Stop", "StopRejected",
     "StopKillFails", "Restart", "GetStatus", "GetLogs", "Subscribe",
     "Unsubscribe", "exitWaiter", "streamLogs", "timer"}

\* The lock operations of each call, along one of its paths.
Program(name) ==
    CASE name = "Start" -> StartLocks
      [] name = "StartRejected" -> setStatusLocks
      [] name = "StartFails" -> StartLocks \o setStatusLocks
      [] name = "Stop" -> StopLocks
      [] name = "StopRejected" -> setStatusLocks
      [] name = "StopKillFails" -> setStatusLocks \o addLogLocks \o addLogLocks
      [] name = "Restart" -> addLogLocks \o StopLocks \o StartLocks
      [] name = "GetStatus" -> GetStatusLocks
      [] name = "GetLogs" -> GetLogsLocks
      [] name = "Subscribe" -> SubscribeLocks
      [] name = "Unsubscribe" -> SubscribeLocks
      [] name = "exitWaiter" -> addLogLocks \o setStatusLocks
      [] name = "streamLogs" -> addLogLocks \o setStatusLocks
      [] name = "timer" -> setStatusLocks

\* The locks held after the first n operations of q, with their mode.
RECURSIVE HeldAfter(_, _)
HeldAfter(q, n) ==
    IF n = 0 THEN {}
    ELSE LET o == q[n]
             before == HeldAfter(q, n - 1)
         IN  CASE o.do = "Lock" -> before \cup {[mu |-> o.mu, mode |-> "W"]}
               [] o.do = "RLock" -> before \cup {[mu |-> o.mu, mode |-> "R"]}
               [] o.do = "Unlock" -> before \ {[mu |-> o.mu, mode |-> "W"]}
               [] o.do = "RUnlock" -> before \ {[mu |-> o.mu, mode |-> "R"]}

Held(t) ==
    IF th[t].op = "none" THEN {} ELSE HeldAfter(Program(th[t].op), th[t].at - 1)

\* The operation thread t is about to make.
NextOp(t) == Program(th[t].op)[th[t].at]

\* A writer holds mu or has announced itself (sync.RWMutex lets no new
\* reader in once a writer waits).
WriterOn(mu) ==
    \E u \in LockThreads :
        \/ [mu |-> mu, mode |-> "W"] \in Held(u)
        \/ th[u].op /= "none" /\ th[u].pend /\ NextOp(u).mu = mu

HeldBySome(mu) == \E u \in LockThreads : \E h \in Held(u) : h.mu = mu

\* Thread t has made its operation and goes on, or returns after the last.
Advances(t) ==
    th' = [th EXCEPT ![t] =
             IF th[t].at = Len(Program(th[t].op))
             THEN NoOp
             ELSE [@ EXCEPT !.at = @ + 1, !.pend = FALSE]]

\* A thread calls one of the functions of the manager.
LockBegin(t, name) ==
    /\ th[t].op = "none"
    /\ th' = [th EXCEPT ![t] = [op |-> name, at |-> 1, pend |-> FALSE]]
    /\ UNCHANGED <<runVars, miscVars, fanVars, logs, ws>>

\* Lock, first half: the writer announces itself, one writer at a time.
LockAnnounce(t) ==
    /\ th[t].op /= "none"
    /\ NextOp(t).do = "Lock"
    /\ ~th[t].pend
    /\ ~WriterOn(NextOp(t).mu)
    /\ th' = [th EXCEPT ![t].pend = TRUE]
    /\ UNCHANGED <<runVars, miscVars, fanVars, logs, ws>>

\* Lock, second half: the announced writer enters when no reader is left.
LockAcquire(t) ==
    /\ th[t].op /= "none"
    /\ NextOp(t).do = "Lock"
    /\ th[t].pend
    /\ ~HeldBySome(NextOp(t).mu)
    /\ Advances(t)
    /\ UNCHANGED <<runVars, miscVars, fanVars, logs, ws>>

\* RLock: a reader enters unless a writer holds the lock or waits for it.
LockRead(t) ==
    /\ th[t].op /= "none"
    /\ NextOp(t).do = "RLock"
    /\ ~WriterOn(NextOp(t).mu)
    /\ Advances(t)
    /\ UNCHANGED <<runVars, miscVars, fanVars, logs, ws>>

\* Unlock and RUnlock.
LockRelease(t) ==
    /\ th[t].op /= "none"
    /\ NextOp(t).do \in {"Unlock", "RUnlock"}
    /\ Advances(t)
    /\ UNCHANGED <<runVars, miscVars, fanVars, logs, ws>>

\* Any lock operation of thread t.
LockStep(t) ==
    LockAnnounce(t) \/ LockAcquire(t) \/ LockRead(t) \/ LockRelease(t)

NextLock ==
    \/ \E t \in LockThreads, name \in LockCalls : LockBegin(t, name)
    \/ \E t \in LockThreads : LockAnnounce(t)
    \/ \E t \in LockThreads : LockAcquire(t)
    \/ \E t \in LockThreads : LockRead(t)
    \/ \E t \in LockThreads : LockRelease(t)

SpecLock == Init /\ [][NextLock]_vars

\* ------------------------------------------------- the log connections
\* SpecWS: websocket handlers (handleHugoWS) next to the appenders. ws[k] is
\* the handler of connection k after a successful Upgrade: its position, the
\* state of the connection, the channel Subscribe gave it (0: none yet), the
\* replayed entries not yet written and the entries written to the viewer so
\* far (kept while the connection is open).
ReplayLimit == 50

\* The channel the next make(chan LogEntry, 100) yields.
FreshChan == CHOOSE ch \in Chans : chans[ch].state = "unmade"
                                   /\ \A d \in Chans : d < ch => chans[d].state /= "unmade"

\* handleHugoWS, line 440: logChan := Subscribe().
WSSubscribe(k) ==
    /\ ws[k].pc = "new"
    /\ \E ch \in Chans : chans[ch].state = "unmade"
    /\ ~SubRLocked
    /\ chans' = [chans EXCEPT ![FreshChan].state = "open"]
    /\ subscribers' = Append(subscribers, FreshChan)
    /\ ws' = [ws EXCEPT ![k].pc = "getlogs", ![k].ch = FreshChan]
    /\ UNCHANGED <<runVars, miscVars, th, logs, recv, fan, appended, logMu, got>>

\* handleHugoWS, line 444: GetLogs(50), the entries to replay.
WSGetLogs(k) ==
    /\ ws[k].pc = "getlogs"
    /\ LET n == GetLogsLimit(logs, ReplayLimit)
       IN  ws' = [ws EXCEPT ![k].pc = "replay",
                            ![k].todo = MakeCopy(n, SubSeq(logs, GetLogsStart(logs, n) + 1,
                                                           Len(logs)))]
    /\ UNCHANGED <<runVars, miscVars, fanVars, th, logs>>

\* handleHugoWS, lines 445-448: write one replayed entry; a failed write
\* returns, which runs the deferred Unsubscribe.
WSReplayWrite(k) ==
    /\ ws[k].pc = "replay"
    /\ ws[k].todo /= <<>>
    /\ ws' = [ws EXCEPT ![k] =
                IF ws[k].conn = "open"
                THEN [@ EXCEPT !.todo = Tail(@), !.sent = Append(@, Head(ws[k].todo))]
                ELSE [@ EXCEPT !.pc = "unsub", !.todo = <<>>]]
    /\ UNCHANGED <<runVars, miscVars, fanVars, th, logs>>

\* handleHugoWS, lines 444-452: the replay loop ends, the stream loop begins.
WSReplayEnd(k) ==
    /\ ws[k].pc = "replay"
    /\ ws[k].todo = <<>>
    /\ ws' = [ws EXCEPT ![k].pc = "stream"]
    /\ UNCHANGED <<runVars, miscVars, fanVars, th, logs>>

\* handleHugoWS, line 452: for entry := range logChan receives an entry; the
\* handler waits here while the channel is empty (nothing else closes it).
WSRecv(k) ==
    /\ ws[k].pc = "stream"
    /\ chans[ws[k].ch].buf /= <<>>
    /\ recv' = [recv EXCEPT ![ws[k].ch] = Head(chans[ws[k].ch].buf)]
    /\ chans' = [chans EXCEPT ![ws[k].ch].buf = Tail(@)]
    /\ ws' = [ws EXCEPT ![k].pc = "write"]
    /\ UNCHANGED <<runVars, miscVars, th, logs, subscribers, fan, appended, logMu, got>>

\* handleHugoWS, lines 453-456: write the received entry; a failed write
\* returns, which runs the deferred Unsubscribe.
WSWrite(k) ==
    /\ ws[k].pc = "write"
    /\ ws' = [ws EXCEPT ![k] =
                IF ws[k].conn = "open"
                THEN [@ EXCEPT !.pc = "stream", !.sent = Append(@, recv[ws[k].ch])]
                ELSE [@ EXCEPT !.pc = "unsub"]]
    /\ UNCHANGED <<runVars, miscVars, fanVars, th, logs>>

\* handleHugoWS, line 441: the deferred Unsubscribe(logChan), then the handler
\* is gone.
WSUnsubscribe(k) ==
    /\ ws[k].pc = "unsub"
    /\ ~SubRLocked
    /\ LET i == IndexOf(subscribers, ws[k].ch)
       IN  IF i = 0
           THEN UNCHANGED <<subscribers, chans>>
           ELSE /\ subscribers' = SubSeq(subscribers, 1, i - 1)
                                     \o SubSeq(subscribers, i + 1, Len(subscribers))
                /\ chans' = [chans EXCEPT ![ws[k].ch].state = "closed"]
    /\ ws' = [ws EXCEPT ![k].pc = "gone"]
    /\ UNCHANGED <<runVars, miscVars, th, logs, recv, fan, appended, logMu, got>>

\* The peer closes connection k, or the connection breaks; the handler never
\* reads from the connection, so it learns of it only from a failed write.
ConnClose(k) ==
    /\ ws[k].conn = "open"
    /\ ws[k].pc /= "gone"
    /\ ws' = [ws EXCEPT ![k].conn = "closed", ![k].sent = <<>>]
    /\ UNCHANGED <<runVars, miscVars, fanVars, th, logs>>

\* Any step of the handler of connection k.
WSStep(k) ==
    \/ WSSubscribe(k) \/ WSGetLogs(k) \/ WSReplayWrite(k) \/ WSReplayEnd(k)
    \/ WSRecv(k) \/ WSWrite(k) \/ WSUnsubscribe(k)

\* The appenders, the handlers and their peers.
NextWS ==
    \/ \E a \in Appenders : AppendEntry(a)
    \/ \E a \in Appenders : FanSend(a)
    \/ \E a \in Appenders : FanNone(a)
    \/ \E k \in Chans : WSSubscribe(k)
    \/ \E k \in Chans : WSGetLogs(k)
    \/ \E k \in Chans : WSReplayWrite(k)
    \/ \E k \in Chans : WSReplayEnd(k)
    \/ \E k \in Chans : WSRecv(k)
    \/ \E k \in Chans : WSWrite(k)
    \/ \E k \in Chans : WSUnsubscribe(k)
    \/ \E k \in Chans : ConnClose(k)

SpecWS == Init /\ [][NextWS]_vars

\* ---------------------------------------------------------------- claims
\* The process started by the most recent successful spawn, 0 if none.
CurrentProc ==
    IF \E c \in Cmds : HasProcess(c)
    THEN CHOOSE c \in Cmds : HasProcess(c) /\ \A d \in Cmds : HasProcess(d) => d <= c
    ELSE 0

\* Some caller is inside Start, past the precondition.
StartInFlight == \E t \in Callers : pc[t] \in {"s_log", "s_cmd", "s_spawn", "r_start"}

HasLog(message, logType) ==
    \E i \in 1..Len(logs) : logs[i] = LogEntry(message, logType)

SpawnErrors == {ErrPipe, ErrNotFound, ErrPipeStarted, ErrStdoutSet}

\* C1: in every reachable state at most one process launched by the manager
\* is alive.
C1_AtMostOneAlive == Cardinality(Alive) <= 1

\* C2: after a successful Stop has killed the live process and returned, with
\* no later call, the status stays stopped: the exit-waiter of the killed
\* process does not set it to error.
C2_KilledIsStopped ==
    [][\A c \in Cmds :
         (/\ WaitSet(c)
          /\ waiter[c].target = c
          /\ proc[c] = "killed"
          /\ cmd = c
          /\ \A t \in Callers : pc[t] = "idle"
          /\ ret.op = "Stop" /\ ret.err = ErrNone
          /\ status = StatusStopped)
         => status' /= StatusError]_vars

\* Every spawned process has ended and its exit-waiter has recorded the end.
ExitsRecorded ==
    \A c \in Cmds : HasProcess(c) => proc[c] /= "alive" /\ waiter[c].pc = "done"

\* C3: once the process has exited, its exit has been recorded as stopped or
\* error and no call is in progress, no later write puts the status back to
\* running.
C3_NoRunningAfterExit ==
    [][(/\ ExitsRecorded
        /\ \A t \in Callers : pc[t] = "idle"
        /\ status \in {StatusStopped, StatusError})
         => status' /= StatusRunning]_vars

\* C4: the exit-waiter of an earlier run changes the status from running to
\* stopped or error only when the process of the most recent successful Start
\* has terminated.
C4_TerminalOnlyAfterExit ==
    [][(/\ status = StatusRunning
        /\ status' \in {StatusStopped, StatusError}
        /\ \E c \in Cmds : WaitSet(c) /\ waiter[c].target = c /\ c < CurrentProc)
         => proc[CurrentProc] /= "alive"]_vars

\* C5: every change of the status follows an edge of the state machine:
\* stopped|error -> starting by Start, starting -> running,
\* starting|running -> stopped|error, any -> stopped by Stop.
C5_OnlySpecifiedEdges ==
    [][status' /= status =>
         \/ status \in {StatusStopped, StatusError} /\ status' = StatusStarting
              /\ \E t \in Callers : StartCheck(t)
         \/ status = StatusStarting /\ status' = StatusRunning
         \/ status \in {StatusStarting, StatusRunning}
              /\ status' \in {StatusStopped, StatusError}
         \/ status' = StatusStopped /\ \E t \in Callers : StopSet(t)]_vars

\* C6: Start called while the status is running or starting returns the
\* "already running" error and changes neither status, message, log, processes
\* nor background loops.
C6_StartRejectedNoEffect ==
    [][\A t \in Callers :
         (StartCheck(t) /\ status \in {StatusRunning, StatusStarting})
         => /\ ret' = [who |-> t, op |-> CallOf(t, "Start"), err |-> ErrAlreadyRunning]
            /\ pc'[t] = "idle"
            /\ UNCHANGED <<lifeVars, logs>>]_vars

C6_Witness ==
    /\ ret.err = ErrAlreadyRunning
    /\ status \in {StatusRunning, StatusStarting}

\* C7: Stop called while the status is stopped returns the "not running"
\* error and changes neither status, message nor log, and kills nothing.
C7_StopRejectedNoEffect ==
    [][\A t \in Callers :
         (StopCheck(t) /\ status = StatusStopped)
         => /\ ret' = [who |-> t, op |-> CallOf(t, "Stop"), err |-> ErrNotRunning]
            /\ pc'[t] = "idle"
            /\ UNCHANGED <<lifeVars, logs>>]_vars

C7_Witness ==
    /\ ret.err = ErrNotRunning
    /\ status = StatusStopped

C9_SpawnFailure ==
    /\ [][\A t \in Callers :
            (StartSpawn(t) /\ ret'.err /= ErrNone)
            => /\ ret'.who = t
               /\ ret'.err \in SpawnErrors
               /\ pc'[t] = "idle"
               /\ status' = StatusError
               /\ Len(statusMsg') = 2
               /\ statusMsg'[2] = ret'.err
               /\ Alive' = Alive
               /\ UNCHANGED <<reader, waiter, timer>>]_vars
    /\ [](\A c \in Cmds :
            ~HasProcess(c)
            => /\ waiter[c].pc = "off"
               /\ timer[c] = "off"
               /\ \A s \in Streams : reader[c][s] = "off")

C9_Witness ==
    /\ ret.op = "Start"
    /\ ret.err = ErrNotFound
    /\ status = StatusError
    /\ statusMsg = MsgFailedStart(ErrNotFound)
    /\ cmd /= 0
    /\ proc[cmd] = "failed"
    /\ waiter[cmd].pc = "off"

C11_StopLeavesNoProcess ==
    [][(/\ ret.op = "Stop"
        /\ ret.err = ErrNone
        /\ status = StatusStopped
        /\ status' = StatusStopped)
         => Alive' \subseteq Alive]_vars

\* C12 (as stated): every Stop that passed its precondition ends with the
\* status stopped.
C12_StopEndsStopped ==
    [][\A t \in Callers :
         (pc[t] \in {"k_err", "k_set"} /\ pc'[t] /= pc[t])
         => status' = StatusStopped]_vars

\* C12 (amended): a Stop that passed its precondition ends with the status
\* stopped and an empty message unless the kill fails; the kill fails only for
\* a process that has already been waited for, and then Stop returns the kill
\* error without writing the status.
C12_StopEndsStoppedUnlessKillFails ==
    [][\A t \in Callers :
         /\ (pc[t] = "k_kill" /\ pc'[t] /= pc[t])
              => IF cmd /= 0 /\ cmd \in reaped
                 THEN pc'[t] = "k_err"
                 ELSE pc'[t] = "k_set" /\ Alive' \subseteq Alive \ {cmd}
         /\ (pc[t] = "k_set" /\ pc'[t] /= pc[t])
              => status' = StatusStopped /\ statusMsg' = MsgEmpty
         /\ (pc[t] = "k_err" /\ pc'[t] /= pc[t])
              => /\ ret'.err = ErrProcessDone
                 /\ UNCHANGED <<status, statusMsg>>]_vars

\* Stop called in the status error (a failed spawn) has returned nil.
C12_Witness ==
    /\ ret.op = "Stop"
    /\ ret.err = ErrNone
    /\ status = StatusStopped
    /\ cmd /= 0
    /\ proc[cmd] = "failed"
    /\ HasLog(MsgStopping, "system")

\* C13: when the kill fails, Stop returns that failure, appends the
\* "Error stopping" entry and writes neither the status nor the message.
C13_KillFailureReturned ==
    [][\A t \in Callers :
         /\ (pc[t] = "k_kill" /\ pc'[t] = "k_err")
              => UNCHANGED <<status, statusMsg>>
         /\ (pc[t] = "k_err" /\ pc'[t] /= pc[t])
              => /\ ret' = [who |-> t, op |-> op[t], err |-> ErrProcessDone]
                 /\ pc'[t] = "idle"
                 /\ logs' = AddLog(logs, MsgErrStopping(ErrProcessDone), "system")
                 /\ UNCHANGED <<status, statusMsg>>]_vars

C13_Witness ==
    /\ ret.op = "Stop"
    /\ ret.err = ErrProcessDone
    /\ status = StatusError
    /\ HasLog(MsgErrStopping(ErrProcessDone), "system")

\* C14: inside Restart, a Stop whose kill failed is followed by the Start
\* attempt.
C14_StartAfterFailedStop ==
    [][\A t \in Callers :
         (op[t] = "Restart" /\ pc[t] = "k_err" /\ pc'[t] /= pc[t])
         => pc'[t] = "r_start"]_vars

\* C15: Restart returns the first failure of its phases: the error of Stop
\* (precondition or kill) at once, otherwise the result of Start; its Start
\* phase is entered only when Stop was skipped or succeeded, and nil is
\* returned only by a Start phase that spawned.
C15_RestartFirstFailure ==
    [][\A t \in Callers :
         /\ (op[t] = "Restart" /\ pc[t] /= "idle" /\ pc'[t] = "idle")
              => /\ ret'.who = t
                 /\ ret'.op = "Restart"
                 /\ pc[t] \in {"r_stop", "k_err", "r_start", "s_spawn"}
                 /\ pc[t] = "r_stop" => ret'.err = ErrNotRunning
                 /\ pc[t] = "k_err" => ret'.err = ErrProcessDone
                 /\ pc[t] = "r_start" => ret'.err = ErrAlreadyRunning
                 /\ pc[t] = "s_spawn"
                      => /\ ret'.err \in SpawnErrors \cup {ErrNone}
                         /\ ret'.err = ErrNone <=> proc'[cmd] = "alive" /\ proc[cmd] = "new"
         /\ (op[t] = "Restart" /\ pc[t] = "k_err" /\ pc'[t] /= pc[t])
              => pc'[t] = "idle"
         /\ (op[t] = "Restart" /\ pc[t] = "r_stop" /\ pc'[t] /= pc[t])
              => IF status = StatusStopped THEN pc'[t] = "idle" ELSE pc'[t] = "k_log"
         /\ (pc'[t] = "r_start" /\ pc[t] /= "r_start")
              => /\ op[t] = "Restart"
                 /\ \/ pc[t] = "r_check" /\ status = StatusStopped
                    \/ pc[t] = "k_set"]_vars

\* Restart has returned the kill failure of its Stop; no Start was tried.
C15_Witness ==
    /\ ret.op = "Restart"
    /\ ret.err = ErrProcessDone
    /\ cmd = 1
    /\ proc[2] = "none"
    /\ calls = 2

\* C16: after a successful Restart of a running instance, with the new process
\* alive and no call in progress, the exit-waiter of the previous process does
\* not set the status to error or stopped.
C16_OldWaiterLeavesNewRun ==
    [][\A c \in Cmds :
         (/\ WaitSet(c)
          /\ waiter[c].target = c
          /\ c < cmd
          /\ proc[c] = "killed"
          /\ proc[cmd] = "alive"
          /\ ret.op = "Restart" /\ ret.err = ErrNone
          /\ \A t \in Callers : pc[t] = "idle")
         => status' \notin {StatusStopped, StatusError}]_vars

\* The last k entries of l, oldest first.
LastN(l, k) == SubSeq(l, Len(l) - k + 1, Len(l))

Entries(l) == {l[i] : i \in 1..Len(l)}

\* C17: the buffer never holds more than maxLogs entries, and it holds exactly
\* the most recently appended ones (all of them while fewer than maxLogs have
\* been appended) in the order of their appends, whichever appender made them.
C17_RingBound ==
    /\ Len(logs) <= maxLogs
    /\ Len(logs) = IF appended < maxLogs THEN appended ELSE maxLogs
    /\ \A i \in 1..Len(logs) : logs[i].Message = Label(appended - Len(logs) + i)

\* More than maxLogs entries were appended, by both appenders, and GetLogs(0)
\* has returned the full buffer.
C17_Witness ==
    /\ appended > maxLogs
    /\ Len(logs) = maxLogs
    /\ \E i, j \in 1..Len(logs) : logs[i].Type /= logs[j].Type
    /\ got.pc = "done"
    /\ got.limit = 0
    /\ got.result = logs

\* C18: GetLogs(limit) returns the last limit entries, oldest first, when
\* 0 < limit <= size, and the whole buffer otherwise; every entry it returns
\* is an entry of the buffer.
C18_GetLogsLastEntries ==
    [][(got.pc = "locked" /\ got'.pc = "done")
         => LET size == Len(logs)
                k == IF 0 < got.limit /\ got.limit <= size THEN got.limit ELSE size
            IN  /\ got'.result = LastN(logs, k)
                /\ Entries(got'.result) \subseteq Entries(logs)]_vars

\* GetLogs(1) on a buffer of two entries has returned the newer one.
C18_Witness ==
    /\ got.pc = "done"
    /\ got.limit = 1
    /\ Len(logs) = 2
    /\ got.result = <<logs[2]>>

\* C19: no append happens while GetLogs holds its lock, so what it returns is
\* the tail of the buffer at one instant; after the return, appends and
\* evictions leave the returned entries as they are.
C19_SnapshotCopy ==
    /\ [][logMu > 0 => logs' = logs]_vars
    /\ [][(got.pc = "locked" /\ got'.pc = "done")
            => /\ Len(got'.result) = got.n
               /\ got'.result = LastN(logs', got.n)]_vars
    /\ [][(got.pc = "done" /\ got'.pc = "done") => got'.result = got.result]_vars

\* A returned snapshot still holds an entry the buffer has since evicted.
C19_Witness ==
    /\ got.pc = "done"
    /\ got.result /= <<>>
    /\ got.result[1] \notin Entries(logs)
    /\ Len(logs) = maxLogs

\* C20: every append is followed by one pass over the registered channels with
\* the appended entry; the pass visits every channel registered while it runs,
\* in order, and puts the entry into each one that holds fewer than SubCap
\* entries; registered channels are open, the registry does not change during
\* a pass, and an entry put into a channel stays there until its consumer
\* receives it.
C20_OfferedToEverySubscriber ==
    /\ [][logs' /= logs
            => \E a \in Appenders :
                 /\ fan[a].pc = "idle"
                 /\ fan'[a] = [pc |-> "fan", entry |-> logs'[Len(logs')], i |-> 1]]_vars
    /\ [][\A a \in Appenders :
            (fan[a].pc = "fan" /\ fan'[a] /= fan[a])
            => IF Len(subscribers) = 0
               THEN fan'[a] = Idle
               ELSE LET ch == subscribers[fan[a].i]
                    IN  /\ Len(chans[ch].buf) < SubCap
                             => chans'[ch].buf = Append(chans[ch].buf, fan[a].entry)
                        /\ fan[a].i < Len(subscribers)
                             => fan'[a] = [fan[a] EXCEPT !.i = @ + 1]
                        /\ fan[a].i = Len(subscribers) => fan'[a] = Idle]_vars
    /\ [][SubRLocked => subscribers' = subscribers]_vars
    /\ [](\A i \in 1..Len(subscribers) : chans[subscribers[i]].state = "open")
    /\ [][\A ch \in Chans :
            chans'[ch].buf /= chans[ch].buf
            => \/ \E a \in Appenders :
                    /\ fan[a].pc = "fan"
                    /\ chans'[ch].buf = Append(chans[ch].buf, fan[a].entry)
               \/ /\ chans[ch].buf /= <<>>
                  /\ chans'[ch].buf = Tail(chans[ch].buf)
                  /\ recv'[ch] = Head(chans[ch].buf)]_vars

\* Two registered subscribers have both received the second entry.
C20_Witness ==
    /\ Len(subscribers) = MaxSubs
    /\ appended >= 2
    /\ \A ch \in Chans :
         /\ chans[ch].state = "open"
         /\ recv[ch].Message = Label(2)

Registered == {subscribers[i] : i \in 1..Len(subscribers)}

\* C21: a fan-out step is possible whenever an appender is inside its pass,
\* whatever the channels hold; a step at a full channel leaves that channel as
\* it is and goes on to the next one, touching neither the buffer nor the
\* other channels; the entry had been stored in the buffer; no channel is
\* registered twice and no entry is pending twice in a channel, so an entry
\* dropped for a channel is not sent to it later.
C21_AppendNeverBlocks ==
    /\ [](\A a \in Appenders :
            fan[a].pc = "fan" => ENABLED (FanSend(a) \/ FanNone(a)))
    /\ [][\A a \in Appenders :
            (fan[a].pc = "fan" /\ fan'[a] /= fan[a] /\ Len(subscribers) > 0)
            => LET ch == subscribers[fan[a].i]
               IN  /\ Len(chans[ch].buf) >= SubCap => chans'[ch] = chans[ch]
                   /\ \A d \in Chans \ {ch} : chans'[d] = chans[d]
                   /\ logs' = logs
                   /\ fan'[a] = IF fan[a].i = Len(subscribers)
                                THEN Idle
                                ELSE [fan[a] EXCEPT !.i = @ + 1]]_vars
    /\ [](\A a \in Appenders :
            fan[a].pc = "fan"
            => \E k \in 1..appended :
                 /\ fan[a].entry.Message = Label(k)
                 /\ appended - k < maxLogs => fan[a].entry \in Entries(logs))
    /\ [](Cardinality(Registered) = Len(subscribers))
    /\ [](\A ch \in Chans :
            /\ Cardinality(Entries(chans[ch].buf)) = Len(chans[ch].buf)
            /\ recv[ch] \notin Entries(chans[ch].buf))

\* The third entry found the first channel full: it is in the buffer and in
\* the second channel, and not in the first.
C21_Witness ==
    /\ appended = 3
    /\ \A a \in Appenders : fan[a].pc = "idle"
    /\ subscribers = <<1, 2>>
    /\ Len(chans[1].buf) = SubCap
    /\ \A i \in 1..Len(chans[1].buf) : chans[1].buf[i].Message /= Label(3)
    /\ \E i \in 1..Len(chans[2].buf) : chans[2].buf[i].Message = Label(3)
    /\ logs[Len(logs)].Message = Label(3)

\* C22: the registry shrinks only by the removal of one registered channel,
\* which is closed in the same step while the others stay registered in their
\* order; a closed channel is never registered, stays closed and receives no
\* entry; its consumer drains what is pending and then ends.
C22_UnsubscribeRemovesAndCloses ==
    /\ [][subscribers' /= subscribers /\ Len(subscribers') <= Len(subscribers)
            => \E ch \in Registered :
                 /\ subscribers' = SelectSeq(subscribers, LAMBDA x : x /= ch)
                 /\ chans[ch].state = "open"
                 /\ chans' = [chans EXCEPT ![ch].state = "closed"]]_vars
    /\ [](\A ch \in Chans : chans[ch].state = "closed" => ch \notin Registered)
    /\ [][\A ch \in Chans :
            chans[ch].state = "closed"
            => /\ chans'[ch].state = "closed"
               /\ \/ chans'[ch].buf = chans[ch].buf
                  \/ chans[ch].buf /= <<>> /\ chans'[ch].buf = Tail(chans[ch].buf)]_vars
    /\ \A ch \in Chans :
         (chans[ch].state = "closed") ~> (chans[ch].state = "closed" /\ chans[ch].buf = <<>>)

\* The first channel was closed and drained; the entry appended later went
\* to the second channel only.
C22_Witness ==
    /\ chans[1].state = "closed"
    /\ chans[1].buf = <<>>
    /\ recv[1].Message = Label(1)
    /\ subscribers = <<2>>
    /\ appended >= 2
    /\ \A a \in Appenders : fan[a].pc = "idle"
    /\ \E i \in 1..Len(chans[2].buf) : chans[2].buf[i].Message = Label(appended)

\* The number the process gave to the line of entry e.
LineNo(e) == CHOOSE k \in 1..RunLines : e.Message[2] = ToString(k)

LineNos(q) == [i \in 1..Len(q) |-> CHOOSE k \in 1..RunLines : q[i][2] = ToString(k)]

\* C23: two entries of the same stream are in the buffer in the order in which
\* the process wrote their lines, and the lines still in the pipe of a stream
\* are in that order too, after the entries of that stream.
C23_StreamOrder ==
    \A s \in Streams :
        /\ \A i, j \in 1..Len(logs) :
             (i < j /\ logs[i].Type = s /\ logs[j].Type = s)
             => LineNo(logs[i]) < LineNo(logs[j])
        /\ \A i, j \in 1..Len(pipe[1][s]) :
             i < j => LineNos(pipe[1][s])[i] < LineNos(pipe[1][s])[j]
        /\ \A i \in 1..Len(logs), j \in 1..Len(pipe[1][s]) :
             logs[i].Type = s => LineNo(logs[i]) < LineNos(pipe[1][s])[j]

\* The buffer holds lines 1 and 3, both of stdout, in that order, while line
\* 2, of stderr, has not been read yet.
C23_Witness ==
    /\ Len(logs) = 2
    /\ logs[1] = LogEntry(Label(1), "stdout")
    /\ logs[2] = LogEntry(Label(3), "stdout")
    /\ pipe[1]["stderr"] = <<Label(2)>>

\* C24: a line written by a process that exits cleanly leaves its pipe only
\* by being appended to the buffer.
C24_NoLineLost ==
    [][\A s \in Streams :
         (proc[1] = "exited0" /\ Len(pipe'[1][s]) < Len(pipe[1][s]))
         => logs' = AddLog(logs, Head(pipe[1][s]), s)]_vars

\* C25: the exit-waiter of a run whose process exited cleanly by itself, when
\* it has waited for that process, sets the status to stopped.
C25_CleanExitRecordedStopped ==
    [][\A c \in Cmds :
         (waiter[c].pc = "set" /\ waiter'[c].pc = "done"
            /\ waiter[c].target = c /\ proc[c] = "exited0")
         => status' = StatusStopped]_vars

\* C26: the grace timer, when it fires, sets the status to running with the
\* port message if the status is starting and otherwise leaves status and
\* message as they are.
C26_TimerOnlyFromStarting ==
    [][\A c \in Cmds :
         (timer[c] = "sleep" /\ timer'[c] = "done")
         => IF status = StatusStarting
            THEN status' = StatusRunning /\ statusMsg' = MsgRunning
            ELSE UNCHANGED <<status, statusMsg>>]_vars

\* The timer of a run has fired after the spawn error of a later Start set
\* the status to error.
C26_Witness ==
    /\ timer[1] = "done"
    /\ status = StatusError
    /\ statusMsg = MsgFailedStart(ErrNotFound)

\* C30: once the process of a run has ended, the exit-waiter of that run is
\* not left waiting for a process that is still alive.
C30_WaiterCanEnd ==
    \A c \in Cmds :
        (HasProcess(c) /\ proc[c] /= "alive" /\ waiter[c].pc = "wait")
        => proc[waiter[c].target] /= "alive"

\* Thread t holds mu, in either mode.
Holds(t, mu) == \E h \in Held(t) : h.mu = mu

\* Thread t has announced a Lock of mu and waits for the readers to leave.
PendingOn(t, mu) == th[t].op /= "none" /\ th[t].pend /\ NextOp(t).mu = mu

\* C27: no thread ever holds two of the manager's locks at once (so never
\* the status lock together with the log lock or the subscriber lock), and
\* whenever some call is under way some thread can make its next lock
\* operation: no interleaving of the calls and the background loops
\* deadlocks.
C27_NoNestedLocks ==
    /\ \A t \in LockThreads : Cardinality(Held(t)) <= 1
    /\ \A t \in LockThreads :
          Holds(t, "statusMu") => ~Holds(t, "logMu") /\ ~Holds(t, "subMu")
    /\ (\E t \in LockThreads : th[t].op /= "none")
          => \E t \in LockThreads : ENABLED LockStep(t)

\* The three locks are in use at once: one thread holds the status lock, a
\* second reads the subscriber list in its fan-out, a third waits to write it.
C27_Witness ==
    \E t, u, v \in LockThreads :
        /\ Holds(t, "statusMu")
        /\ Holds(u, "subMu") /\ th[u].op \notin {"Subscribe", "Unsubscribe"}
        /\ PendingOn(v, "subMu")

\* C28: a GetStatus that has not entered yet can enter whenever no writer
\* holds or awaits the status lock, whatever is going on with the log lock
\* and the subscriber lock; and whoever holds the status lock can go on, and
\* whoever awaits it waits only for its holders: GetStatus is never behind a
\* log-buffer operation.
C28_GetStatusWaitsOnlyForStatusLock ==
    \A t \in LockThreads :
        /\ (th[t].op = "GetStatus" /\ th[t].at = 1 /\ ~WriterOn("statusMu"))
             => ENABLED LockStep(t)
        /\ Holds(t, "statusMu") => ENABLED LockStep(t)
        /\ (PendingOn(t, "statusMu") /\ ~HeldBySome("statusMu"))
             => ENABLED LockStep(t)

\* GetStatus has entered the status lock while one append holds the log
\* lock and another is in its fan-out under the subscriber lock.
C28_Witness ==
    \E t, u, v \in LockThreads :
        /\ th[t].op = "GetStatus" /\ Holds(t, "statusMu")
        /\ [mu |-> "logMu", mode |-> "W"] \in Held(u)
        /\ [mu |-> "subMu", mode |-> "R"] \in Held(v)

\* C29: once its connection has closed, the handler that owns a subscriber
\* channel has a step to take for as long as the channel is open, so that it
\* reaches its Unsubscribe without any further entry being appended.
C29_ClosedConnectionReleasesChannel ==
    \A k \in Chans :
        (ws[k].conn = "closed" /\ ws[k].ch /= 0 /\ chans[ws[k].ch].state = "open"
           /\ \A a \in Appenders : fan[a].pc = "idle")
            => ENABLED WSStep(k)

\* One of the two ready markers occurs in the line.
HasMarker(line) ==
    \E m \in {Marker1, Marker2} :
        \E i \in 1..Len(line) :
            /\ i + Len(m) - 1 <= Len(line)
            /\ \A j \in 1..Len(m) : line[i + j - 1] = m[j]

\* streamLogs of stream s of c takes the next line of its pipe and logs it.
ReadsLine(c, s) ==
    /\ reader[c][s] = "scan"
    /\ pipe[c][s] /= <<>>
    /\ pipe'[c][s] = Tail(pipe[c][s])
    /\ logs' /= <<>>
    /\ logs'[Len(logs')] = LogEntry(Head(pipe[c][s]), s)

\* C31: reading a line never changes the status by itself; the reader goes
\* on to set the status exactly when the line is a stdout line that holds a
\* ready marker, and then it sets running with the message naming the
\* configured port. A stderr line with a marker and a stdout line without
\* one leave the status as it is.
C31_ReadyMarkerPromotes ==
    [][\A c \in Cmds, s \in Streams :
         /\ ReadsLine(c, s)
              => /\ status' = status /\ statusMsg' = statusMsg
                 /\ reader'[c][s] = "mark"
                      <=> (s = "stdout" /\ HasMarker(Head(pipe[c][s])))
         /\ (reader[c][s] = "mark" /\ reader'[c][s] /= "mark")
              => status' = StatusRunning /\ statusMsg' = MsgRunning
         /\ (reader[c][s] /= "mark" /\ reader'[c][s] = "mark")
              => ReadsLine(c, s)]_vars

\* A stdout line with "Serving pages from" has promoted the run before the
\* grace period elapsed, after a stderr line with a marker had been logged
\* and had left the status at starting.
C31_Witness ==
    /\ status = StatusRunning /\ statusMsg = MsgRunning
    /\ timer[1] = "sleep"
    /\ Len(logs) = 2
    /\ logs[1] = LogEntry(Label(1) \o Marker1, "stderr")
    /\ logs[2] = LogEntry(Label(2) \o Marker2, "stdout")

\* C32: every step of Start, Stop, Restart, the process and its loops either
\* leaves the buffer as it is or appends one entry to it, dropping the oldest
\* entry only when the buffer was at capacity; the entries that stay keep
\* their content and their order.
C32_BufferAppendOnly ==
    [][\/ logs' = logs
       \/ /\ logs' /= <<>>
          /\ \/ SubSeq(logs', 1, Len(logs') - 1) = logs
             \/ /\ Len(logs) = maxLogs
                /\ SubSeq(logs', 1, Len(logs') - 1) = Tail(logs)]_vars

\* A Restart has stopped the first run and is starting the second: the
\* buffer holds the entries of the stop and of the new start, the older ones
\* having been evicted.
C32_Witness ==
    /\ cmd = 2
    /\ logs = <<LogEntry(MsgStopping, "system"), LogEntry(MsgStarting, "system")>>
    /\ \E t \in Callers : op[t] = "Restart"

\* C33: the argument list of every command built so far is "server",
\* "--port", the configured port, then "--disableFastRender" exactly when
\* the flag is set, then the additional arguments as configured; so all
\* commands built under one configuration have the same list.
C33_ArgsFromConfig ==
    /\ \A c \in Cmds :
          c <= cmd =>
            /\ Len(args[c]) >= 3
            /\ args[c][1] = "server"
            /\ args[c][2] = "--port"
            /\ args[c][3] = ToString(config.Port)
            /\ LET rest == SubSeq(args[c], 4, Len(args[c]))
               IN  IF config.DisableFastRender
                   THEN /\ rest /= <<>>
                        /\ Head(rest) = "--disableFastRender"
                        /\ Tail(rest) = config.AdditionalArgs
                   ELSE rest = config.AdditionalArgs
    /\ \A c, d \in Cmds : (c <= cmd /\ d <= cmd) => args[c] = args[d]

\* Two commands have been built with the flag set and two different
\* additional arguments.
C33_Witness ==
    /\ cmd = 2
    /\ args[1] = args[2]
    /\ config.DisableFastRender
    /\ Len(config.AdditionalArgs) = 2
    /\ config.AdditionalArgs[1] /= config.AdditionalArgs[2]
    /\ config.Port /= Port

\* C34: the grace timer of a run promotes the status from starting to
\* running only while the command of that run is still the current one.
C34_TimerActsOnOwnRun ==
    [][\A c \in Cmds :
         (timer[c] = "sleep" /\ timer'[c] = "done"
            /\ status = StatusStarting /\ status' = StatusRunning)
           => cmd = c]_vars

\* The place of an entry in the order of the appends to the buffer.
EntryNo(e) == CHOOSE k \in 1..MaxAppends : e.Message = Label(k)

\* C35: the entries pending in a subscriber channel, which its consumer
\* receives first to last, and the entry it received last, are in the order
\* in which they were appended to the buffer.
C35_ReceivedInBufferOrder ==
    \A ch \in Chans :
        /\ \A i, j \in 1..Len(chans[ch].buf) :
             i < j => EntryNo(chans[ch].buf[i]) < EntryNo(chans[ch].buf[j])
        /\ \A i \in 1..Len(chans[ch].buf) :
             recv[ch] /= ZeroEntry => EntryNo(recv[ch]) < EntryNo(chans[ch].buf[i])

\* C36: the registry holds open channels only, each once; an entry is put
\* into a channel only while the channel is open and registered; a channel
\* is closed only when it is open, and by the step that takes it out of the
\* registry, so that it is never closed again and never sent to afterwards.
C36_NoSendAfterClose ==
    /\ [](\A i \in 1..Len(subscribers) :
            /\ chans[subscribers[i]].state = "open"
            /\ \A j \in 1..Len(subscribers) : subscribers[i] = subscribers[j] => i = j)
    /\ [][\A ch \in Chans :
            Len(chans'[ch].buf) > Len(chans[ch].buf)
              => chans[ch].state = "open" /\ ch \in Registered]_vars
    /\ [][\A ch \in Chans :
            (chans[ch].state = "closed" \/ chans'[ch].state = "closed")
              => /\ chans'[ch].state = "closed"
                 /\ ch \notin {subscribers'[i] : i \in 1..Len(subscribers')}
                 /\ chans[ch].state = "closed" \/ ch \in Registered]_vars

\* A channel was closed with an entry still pending in it, and the other
\* channel has since been sent the last entry.
C36_Witness ==
    \E ch, d \in Chans :
        /\ chans[ch].state = "closed" /\ chans[ch].buf /= <<>>
        /\ chans[d].state = "open" /\ chans[d].buf /= <<>>
        /\ chans[d].buf[Len(chans[d].buf)].Message = Label(MaxAppends)

\* C37: an Unsubscribe of a channel that is not in the registry, whether it
\* was never registered or has been unsubscribed already, changes neither
\* the registry nor any channel.
C37_UnsubscribeUnregisteredNoOp ==
    [][\A ch \in Chans :
         (ch \notin Registered /\ Unsubscribe(ch))
           => /\ subscribers' = subscribers
              /\ chans' = chans]_vars

\* While one channel is registered and holds an entry, Unsubscribe can be
\* called again for the channel that was unsubscribed before.
C37_Witness ==
    \E ch, d \in Chans :
        /\ chans[ch].state = "closed" /\ ch \notin Registered
        /\ ENABLED Unsubscribe(ch)
        /\ d \in Registered /\ chans[d].buf /= <<>>

\* What GetStatus returns: both fields, read under statusMu.RLock.
GetStatus == <<status, statusMsg>>

\* The pairs the status writes of the manager write: Start, the timer and
\* streamLogs, Stop and the exit-waiter, the failures of Start.
WrittenPairs ==
    {<<StatusStopped, MsgEmpty>>,
     <<StatusStarting, MsgStarting>>,
     <<StatusRunning, MsgRunning>>}
      \cup {<<StatusError, <<e>>>> : e \in {ErrNotStarted, ErrWaitCalled, ErrExitStatus, ErrKilled}}
      \cup {<<StatusError, m>> :
               m \in {MsgFailedStdout(ErrPipe), MsgFailedStderr(ErrPipe),
                      MsgFailedStart(ErrNotFound), MsgFailedStdout(ErrPipeStarted),
                      MsgFailedStdout(ErrStdoutSet)}}

\* C38: GetStatus returns a pair that one status write has written whole:
\* stopped comes with the empty message, starting with "Starting Hugo
\* server...", running with "Running on port" and the configured port, and
\* error with the text of one of the errors.
C38_StatusPairWhole ==
    /\ GetStatus \in WrittenPairs
    /\ status = StatusStopped => statusMsg = MsgEmpty
    /\ status = StatusStarting => statusMsg = MsgStarting
    /\ status = StatusRunning => statusMsg = <<"Running on port", ToString(config.Port)>>
    /\ status = StatusError => statusMsg /= MsgEmpty

\* The status reads running while a caller is inside Stop and an
\* exit-waiter is about to write: three writers of the pair at once.
C38_Witness ==
    /\ GetStatus = <<StatusRunning, MsgRunning>>
    /\ \E t \in Callers : op[t] = "Stop" /\ pc[t] /= "idle"
    /\ \E c \in Cmds : waiter[c].pc = "set"

\* C39: no entry is written twice to one connection.
C39_EachEntryOnce ==
    \A k \in Chans :
        \A i, j \in 1..Len(ws[k].sent) :
            ws[k].sent[i] = ws[k].sent[j] => i = j

\* C40: when the manager has exited after a signal, none of the processes
\* that were alive when the signal arrived is still alive.
C40_ShutdownKillsAlive ==
    main.pc = "exited" => \A c \in main.alive : proc[c] /= "alive"

====
